---- MODULE Spec2Model ----
(***************************************************************************)
(* Growth engines of organic-growth-patterns:                              *)
(*   src/organic-patterns.py     class OrganicPatternGenerator  (2D)       *)
(*   src/organic-patterns-3d.py  class OrganicPattern3D         (3D)       *)
(* One engine instance is modelled per behaviour; `prog` says which class  *)
(* was constructed.  Cell values are exact rationals <<num, den>>.         *)
(***************************************************************************)
EXTENDS Integers, Sequences, FiniteSets

VARIABLES
    prog,      \* "2D" (OrganicPatternGenerator) or "3D" (OrganicPattern3D)
    shape,     \* numpy shape of self.grid: <<height, width>> or <<depth, height, width>>
    grid,      \* self.grid: cell index tuple -> rational value
    dtype,     \* dtype of self.grid: "float" or "int"
    history,   \* self.history (3D only): sequence of grid snapshots
    envRun,    \* number of add_environment calls since the last seed/grow
    lastOp,    \* the call that produced this state: [op, arg, n]
    ret        \* outcome of that call: [kind, exc, val]

vars == <<prog, shape, grid, dtype, history, envRun, lastOp, ret>>

(***************************************************************************)
(* Bounds of the model                                                     *)
(***************************************************************************)
MaxLive2D == 2      \* seed_random (2D) draws grids with at most this many live cells
MaxLive3D == 2      \* seed_random (3D) draws grids with at most this many live cells
MaxRadius == 1      \* seed_center radius ranges over 0..MaxRadius
MaxHistory == 3     \* grow (3D) is not called once the history would exceed this
MaxEnv == 2         \* add_environment is called at most this often in a row
MaxGenerations == 2 \* grow (3D) generations argument ranges over 0..MaxGenerations

Shapes2D == { <<3, 2>>, <<1, 4>> }
Shapes3D == { <<3, 2, 1>>, <<1, 3, 2>>, <<2, 1, 3>> }

(***************************************************************************)
(* Exact rational arithmetic standing for float64 values                   *)
(***************************************************************************)
Abs(n) == IF n < 0 THEN -n ELSE n

RECURSIVE GCD(_, _)
GCD(a, b) == IF b = 0 THEN a ELSE GCD(b, a % b)

Rat(n, d) == LET g == GCD(Abs(n), d) IN <<n \div g, d \div g>>

Zero == <<0, 1>>
One == <<1, 1>>
NaN == <<0, 0>>     \* result of 0.0 / 0.0

IsNaN(a) == a[2] = 0

RAdd(a, b) ==
    IF a[1] = 0 THEN b
    ELSE IF b[1] = 0 THEN a
    ELSE LET g == GCD(a[2], b[2])
             l == (a[2] \div g) * b[2]
         IN  Rat(a[1] * (l \div a[2]) + b[1] * (l \div b[2]), l)

RMul(a, b) ==
    IF a[1] = 0 \/ b[1] = 0 THEN Zero
    ELSE LET g1 == GCD(Abs(a[1]), b[2])
             g2 == GCD(Abs(b[1]), a[2])
         IN  <<(a[1] \div g1) * (b[1] \div g2), (a[2] \div g2) * (b[2] \div g1)>>

\* a / b for b >= 0; the only division by zero in the program is 0.0 / 0.0.
RDiv(a, b) == IF b[1] = 0 THEN NaN ELSE RMul(a, <<b[2], b[1]>>)

RLeq(a, b) ==
    LET g == GCD(a[2], b[2])
    IN  a[1] * (b[2] \div g) <= b[1] * (a[2] \div g)

RLt(a, b) == RLeq(a, b) /\ a # b

RMin(a, b) == IF RLeq(a, b) THEN a ELSE b
RMax(a, b) == IF RLeq(a, b) THEN b ELSE a

clip(v, lo, hi) == RMin(RMax(v, lo), hi)

Sum3(t) == RAdd(RAdd(t[0], t[1]), t[2])

\* Sum of the entries of a 3x3 or 3x3x3 array.
KSum(f, ndim) ==
    IF ndim = 2
    THEN Sum3([i \in 0..2 |-> Sum3([j \in 0..2 |-> f[<<i, j>>]])])
    ELSE Sum3([i \in 0..2 |->
            Sum3([j \in 0..2 |-> Sum3([k \in 0..2 |-> f[<<i, j, k>>]])])])

\* Conversion of a float64 accumulator to an int64 output cell (truncation).
Trunc(a) == <<a[1] \div a[2], 1>>

(***************************************************************************)
(* Arrays                                                                  *)
(***************************************************************************)
Cells(sh) ==
    IF Len(sh) = 2
    THEN { <<y, x>> : y \in 0..(sh[1] - 1), x \in 0..(sh[2] - 1) }
    ELSE { <<z, y, x>> : z \in 0..(sh[1] - 1), y \in 0..(sh[2] - 1), x \in 0..(sh[3] - 1) }

zeros(sh) == [c \in Cells(sh) |-> Zero]

KernelShape2D == <<3, 3>>
KernelShape3D == <<3, 3, 3>>

(***************************************************************************)
(* Kernels and rule tables                                                 *)
(***************************************************************************)
\* Mutant of MooreKernel: the centre cell counts itself.
MooreKernel_with_centre == [k \in Cells(KernelShape2D) |-> One]

\* np.array([[1,1,1],[1,0,1],[1,1,1]])
MooreKernel ==
    [k \in Cells(KernelShape2D) |-> IF k = <<1, 1>> THEN Zero ELSE One]

\* np.array([[0,1,0],[1,0,1],[0,1,0]])
CrossKernel ==
    [k \in Cells(KernelShape2D) |->
        IF k \in { <<0, 1>>, <<1, 0>>, <<1, 2>>, <<2, 1>> } THEN One ELSE Zero]

Patterns2D ==
    [ coral    |-> [kernel |-> MooreKernel, survive_range |-> <<2, 3>>, birth_range |-> <<3, 3>>],
      lichen   |-> [kernel |-> CrossKernel, survive_range |-> <<1, 3>>, birth_range |-> <<2, 3>>],
      mycelium |-> [kernel |-> MooreKernel, survive_range |-> <<2, 4>>, birth_range |-> <<2, 3>>] ]

FaceCells ==
    { <<1, 1, 0>>, <<1, 0, 1>>, <<0, 1, 1>>, <<1, 1, 2>>, <<1, 2, 1>>, <<2, 1, 1>> }

\* The kernel array before the final division.
raw_3d_kernel(name) ==
    [k \in Cells(KernelShape3D) |->
        CASE name = "sphere"  -> IF k \in FaceCells THEN One ELSE Zero
          [] name = "diamond" -> IF k \in FaceCells THEN One ELSE Zero
          [] name = "cube"    -> IF k = <<1, 1, 1>> THEN Zero ELSE One
          [] OTHER            -> Zero]

\* A call's outcome.  kind is "return" or "raise" (with exc the exception's name);
\* no modelled call has a raise statement or a failing lookup on these inputs.
Return(v) == [kind |-> "return", exc |-> "", val |-> v]

\* Mutant of create_3d_kernel: the final division by the sum is left out.
create_3d_kernel_unnormalised(name) == Return(raw_3d_kernel(name))

\* _create_3d_kernel: no branch rejects a name; the division is elementwise.
create_3d_kernel(name) ==
    LET kernel == raw_3d_kernel(name)
        total == KSum(kernel, 3)
    IN  Return([k \in DOMAIN kernel |-> RDiv(kernel[k], total)])

Patterns3D ==
    [ coral    |-> [kernel |-> create_3d_kernel("sphere").val,
                    survive_range |-> <<4, 6>>, birth_range |-> <<4, 5>>],
      mycelium |-> [kernel |-> create_3d_kernel("diamond").val,
                    survive_range |-> <<3, 6>>, birth_range |-> <<3, 4>>],
      crystal  |-> [kernel |-> create_3d_kernel("cube").val,
                    survive_range |-> <<4, 7>>, birth_range |-> <<5, 6>>] ]

Rules2D == {"coral", "lichen", "mycelium"}
Rules3D == {"coral", "mycelium", "crystal"}
ShapeNames == {"sphere", "diamond", "cube", "pyramid"}

(***************************************************************************)
(* scipy.ndimage.convolve(input, weights, mode='wrap')                     *)
(***************************************************************************)
\* Input index read by output cell c for kernel entry k, wrapped per axis.
Source(c, k, sh) == [i \in 1..Len(sh) |-> (c[i] - (k[i] - 1)) % sh[i]]

\* The output array has the dtype of the input array.
convolve(input, weights, sh, dt) ==
    [c \in Cells(sh) |->
        LET terms == [k \in DOMAIN weights |-> RMul(weights[k], input[Source(c, k, sh)])]
            acc == KSum(terms, Len(sh))
        IN  IF dt = "int" THEN Trunc(acc) ELSE acc]

\* Mutant of InRange: the lower bound is not tested.
InRange_upper_only(v, range) == RLeq(v, <<range[2], 1>>)

InRange(v, range) == RLeq(<<range[1], 1>>, v) /\ RLeq(v, <<range[2], 1>>)

\* survival_mask | birth_mask, evaluated on the old grid and its neighbour field.
rule_mask(g, neighbors, pattern) ==
    [c \in DOMAIN g |->
        \/ (RLt(Zero, g[c]) /\ InRange(neighbors[c], pattern.survive_range))
        \/ (g[c] = Zero /\ InRange(neighbors[c], pattern.birth_range))]

active_cells(g) == Cardinality({c \in DOMAIN g : RLt(Zero, g[c])})

(***************************************************************************)
(* Seeding                                                                 *)
(***************************************************************************)
RECURSIVE SmallSubsets(_, _)
SmallSubsets(S, k) ==
    IF k = 0 THEN {{}}
    ELSE LET P == SmallSubsets(S, k - 1)
         IN  P \cup { p \cup {x} : p \in P, x \in S }

\* Outcomes of np.random.choice([0, 1], size, p=[1-density, density]), per shape.
RandomGrids ==
    [sh \in Shapes2D \cup Shapes3D |->
        { [c \in Cells(sh) |-> IF c \in live THEN One ELSE Zero] :
            live \in SmallSubsets(Cells(sh),
                                   IF Len(sh) = 2 THEN MaxLive2D ELSE MaxLive3D) }]

\* 2D: mask = x*x + y*y <= radius*radius on an ogrid centred at (height//2, width//2)
seed_center_2d(sh, radius) ==
    LET center_y == sh[1] \div 2
        center_x == sh[2] \div 2
    IN  [c \in Cells(sh) |->
            LET y == c[1] - center_y
                x == c[2] - center_x
            IN  IF x * x + y * y <= radius * radius THEN One ELSE Zero]

\* 2D: grid[height//2, width//4 : 3*width//4] = 1.0
seed_line_2d(sh) ==
    [c \in Cells(sh) |->
        IF c[1] = sh[1] \div 2 /\ c[2] >= sh[2] \div 4 /\ c[2] < (3 * sh[2]) \div 4
        THEN One ELSE Zero]

\* 3D: sqrt((x-cx)**2 + (y-cy)**2 + (z-cz)**2) <= radius, radius >= 0
seed_center_3d(sh, radius) ==
    LET center_z == sh[1] \div 2
        center_y == sh[2] \div 2
        center_x == sh[3] \div 2
    IN  [c \in Cells(sh) |->
            LET d2 == (c[3] - center_x) * (c[3] - center_x)
                      + (c[2] - center_y) * (c[2] - center_y)
                      + (c[1] - center_z) * (c[1] - center_z)
            IN  IF d2 <= radius * radius THEN One ELSE Zero]

(***************************************************************************)
(* One generation                                                          *)
(***************************************************************************)
\* Samples of random() * 0.1 for <<even cells, odd cells>>; every value is in [0, 0.1).
NoisePairs == { <<Zero, <<1, 16>> >>, << <<1, 16>>, <<3, 32>> >> }

\* Noise arrays considered, per shape.
NoiseArrays ==
    [sh \in Shapes2D |->
        { [c \in Cells(sh) |-> IF (c[1] + c[2]) % 2 = 0 THEN ab[1] ELSE ab[2]] :
            ab \in NoisePairs }]

\* Mutant of next_grid_2d: cells are rewritten one by one in row-major order, each
\* reading the neighbours already rewritten before it.
RECURSIVE sweep_in_place(_, _, _, _)
sweep_in_place(g, sh, pattern, i) ==
    IF i > sh[1] * sh[2] THEN g
    ELSE LET c == <<(i - 1) \div sh[2], (i - 1) % sh[2]>>
             mask == rule_mask(g, convolve(g, pattern.kernel, sh, "float"), pattern)
         IN  sweep_in_place([g EXCEPT ![c] = IF mask[c] THEN One ELSE Zero],
                            sh, pattern, i + 1)

next_grid_2d_in_place(g, sh, pattern_type, noise) ==
    LET next_grid == sweep_in_place(g, sh, Patterns2D[pattern_type], 1)
    IN  IF pattern_type = "mycelium"
        THEN [c \in DOMAIN g |-> clip(RAdd(next_grid[c], noise[c]), Zero, One)]
        ELSE next_grid

\* 2D grow body: the next grid, from the grid at the start of the call.
next_grid_2d(g, sh, pattern_type, noise) ==
    LET pattern == Patterns2D[pattern_type]
        neighbors == convolve(g, pattern.kernel, sh, "float")
        mask == rule_mask(g, neighbors, pattern)
        next_grid == [c \in DOMAIN g |-> IF mask[c] THEN One ELSE Zero]
    IN  IF pattern_type = "mycelium"
        THEN [c \in DOMAIN g |-> clip(RAdd(next_grid[c], noise[c]), Zero, One)]
        ELSE next_grid

\* 3D grow loop body: the next grid, from the grid at the start of the generation.
next_grid_3d(g, sh, pattern_type, dt) ==
    LET pattern == Patterns3D[pattern_type]
        neighbors == convolve(g, pattern.kernel, sh, dt)
        mask == rule_mask(g, neighbors, pattern)
    IN  [c \in DOMAIN g |-> IF mask[c] THEN One ELSE Zero]

\* Mutant of grow_3d: the loop body runs once before the count is tested.
RECURSIVE grow_3d_do_while(_, _, _, _, _, _)
grow_3d_do_while(g, hist, sh, pattern_type, dt, generations) ==
    LET next_grid == next_grid_3d(g, sh, pattern_type, dt)
    IN  IF generations <= 1
        THEN [grid |-> next_grid, history |-> Append(hist, next_grid)]
        ELSE grow_3d_do_while(next_grid, Append(hist, next_grid), sh, pattern_type, dt,
                              generations - 1)

\* Mutant of grow_3d: the snapshot is appended after the loop, once per call.
RECURSIVE final_grid_3d(_, _, _, _, _)
final_grid_3d(g, sh, pattern_type, dt, generations) ==
    IF generations <= 0 THEN g
    ELSE final_grid_3d(next_grid_3d(g, sh, pattern_type, dt), sh, pattern_type, dt,
                       generations - 1)

grow_3d_single_append(g, hist, sh, pattern_type, dt, generations) ==
    LET last == final_grid_3d(g, sh, pattern_type, dt, generations)
    IN  [grid |-> last,
         history |-> IF generations <= 0 THEN hist ELSE Append(hist, last)]

\* Mutant of grow_3d: the grid array is overwritten in place and appended without
\* a copy, so every stored snapshot is the live array.
grow_3d_aliased(g, hist, sh, pattern_type, dt, generations) ==
    LET last == final_grid_3d(g, sh, pattern_type, dt, generations)
    IN  [grid |-> last,
         history |-> IF generations <= 0 THEN hist
                     ELSE [i \in 1..(Len(hist) + generations) |-> last]]

\* 3D grow: for _ in range(generations): grid = next; history.append(grid.copy())
RECURSIVE grow_3d(_, _, _, _, _, _)
grow_3d(g, hist, sh, pattern_type, dt, generations) ==
    IF generations <= 0 THEN [grid |-> g, history |-> hist]
    ELSE LET next_grid == next_grid_3d(g, sh, pattern_type, dt)
         IN  grow_3d(next_grid, Append(hist, next_grid), sh, pattern_type, dt,
                     generations - 1)

(***************************************************************************)
(* Environment (2D)                                                        *)
(***************************************************************************)
\* Mutant of moisture_gradient: the ramp ends at 1.5 instead of 1.
moisture_gradient_amplifying(sh, c) ==
    IF sh[1] = 1 THEN <<1, 2>>
    ELSE Rat(sh[1] - 1 + 2 * c[1], 2 * (sh[1] - 1))

\* np.linspace(0.5, 1, height)[y], tiled across the width
moisture_gradient(sh, c) ==
    IF sh[1] = 1 THEN <<1, 2>>
    ELSE Rat(sh[1] - 1 + c[1], 2 * (sh[1] - 1))

\* clip(1 - 0.5 * (x*x + y*y) / (width * height / 4), 0.3, 1)
light_gradient(sh, c) ==
    LET y == c[1] - sh[1] \div 2
        x == c[2] - sh[2] \div 2
        r2 == x * x + y * y
    IN  clip(Rat(sh[1] * sh[2] - 2 * r2, sh[1] * sh[2]), <<3, 10>>, One)

add_environment(g, sh, factor) ==
    CASE factor = "moisture" -> [c \in DOMAIN g |-> RMul(g[c], moisture_gradient(sh, c))]
      [] factor = "light"    -> [c \in DOMAIN g |-> RMul(g[c], light_gradient(sh, c))]
      [] OTHER               -> g

(***************************************************************************)
(* State machine                                                           *)
(***************************************************************************)
Factors == {"moisture", "light"}
None == "None"

Op(name, arg, n) == [op |-> name, arg |-> arg, n |-> n]

\* __init__ of either class: a zero float grid and no history.  self.patterns is
\* never reassigned, so it is the definition Patterns2D or Patterns3D.
Init ==
    /\ prog \in {"2D", "3D"}
    /\ shape \in (IF prog = "2D" THEN Shapes2D ELSE Shapes3D)
    /\ grid = zeros(shape)
    /\ dtype = "float"
    /\ history = <<>>
    /\ envRun = 0
    /\ lastOp = Op("__init__", "", 0)
    /\ ret = Return(None)

SeedRandom2D ==
    /\ prog = "2D"
    /\ \E g \in RandomGrids[shape] : grid' = g
    /\ dtype' = "float"
    /\ envRun' = 0
    /\ lastOp' = Op("seed_random", "", 0)
    /\ ret' = Return(None)
    /\ UNCHANGED <<prog, shape, history>>

SeedCenter2D ==
    /\ prog = "2D"
    /\ \E radius \in 0..MaxRadius :
        /\ grid' = seed_center_2d(shape, radius)
        /\ lastOp' = Op("seed_center", "", radius)
    /\ dtype' = "float"
    /\ envRun' = 0
    /\ ret' = Return(None)
    /\ UNCHANGED <<prog, shape, history>>

SeedLine2D ==
    /\ prog = "2D"
    /\ grid' = seed_line_2d(shape)
    /\ dtype' = "float"
    /\ envRun' = 0
    /\ lastOp' = Op("seed_line", "", 0)
    /\ ret' = Return(None)
    /\ UNCHANGED <<prog, shape, history>>

Grow2D ==
    /\ prog = "2D"
    /\ \E pattern_type \in Rules2D :
       \E noise \in (IF pattern_type = "mycelium"
                     THEN NoiseArrays[shape] ELSE {zeros(shape)}) :
        /\ grid' = next_grid_2d(grid, shape, pattern_type, noise)
        /\ lastOp' = Op("grow", pattern_type, 1)
    /\ ret' = Return(active_cells(grid'))
    /\ envRun' = 0
    /\ UNCHANGED <<prog, shape, dtype, history>>

AddEnvironment ==
    /\ prog = "2D"
    /\ envRun < MaxEnv
    /\ \E factor \in Factors :
        /\ grid' = add_environment(grid, shape, factor)
        /\ lastOp' = Op("add_environment", factor, 0)
    /\ envRun' = envRun + 1
    /\ ret' = Return(None)
    /\ UNCHANGED <<prog, shape, dtype, history>>

SeedRandom3D ==
    /\ prog = "3D"
    /\ \E g \in RandomGrids[shape] : grid' = g
    /\ dtype' = "int"
    /\ history' = <<grid'>>
    /\ lastOp' = Op("seed_random", "", 0)
    /\ ret' = Return(None)
    /\ UNCHANGED <<prog, shape, envRun>>

SeedCenter3D ==
    /\ prog = "3D"
    /\ \E radius \in 0..MaxRadius :
        /\ grid' = seed_center_3d(shape, radius)
        /\ lastOp' = Op("seed_center", "", radius)
    /\ dtype' = "float"
    /\ history' = <<grid'>>
    /\ ret' = Return(None)
    /\ UNCHANGED <<prog, shape, envRun>>

Grow3D ==
    /\ prog = "3D"
    /\ \E pattern_type \in Rules3D :
       \E generations \in 0..MaxGenerations :
        /\ Len(history) + generations <= MaxHistory
        /\ LET r == grow_3d(grid, history, shape, pattern_type, dtype, generations)
           IN  /\ grid' = r.grid
               /\ history' = r.history
        /\ lastOp' = Op("grow", pattern_type, generations)
    /\ ret' = Return(None)
    /\ UNCHANGED <<prog, shape, dtype, envRun>>

\* _create_3d_kernel reads no state: its calls are explored on the engine as
\* constructed, before any seeding.
CreateKernel3D ==
    /\ prog = "3D"
    /\ lastOp.op \in {"__init__", "_create_3d_kernel"}
    /\ \E name \in ShapeNames :
        /\ ret' = create_3d_kernel(name)
        /\ lastOp' = Op("_create_3d_kernel", name, 0)
    /\ UNCHANGED <<prog, shape, grid, dtype, history, envRun>>

Next ==
    \/ SeedRandom2D
    \/ SeedCenter2D
    \/ SeedLine2D
    \/ Grow2D
    \/ AddEnvironment
    \/ SeedRandom3D
    \/ SeedCenter3D
    \/ Grow3D
    \/ CreateKernel3D

Spec == Init /\ [][Next]_vars

(***************************************************************************)
(* Helpers for the properties                                              *)
(***************************************************************************)
\* self.patterns of the constructed engine
patterns == IF prog = "2D" THEN Patterns2D ELSE Patterns3D

Rules == IF prog = "2D" THEN Rules2D ELSE Rules3D
KnownShapes3D == {"sphere", "diamond", "cube"}
SeedOps == {"seed_random", "seed_center", "seed_line"}

AllZero(g) == \A c \in DOMAIN g : g[c] = Zero
Binary(g) == \A c \in DOMAIN g : g[c] \in {Zero, One}
Center(ndim) == [i \in 1..ndim |-> 1]

\* Weighted sum of the cells around c on the torus, written from the rule's
\* statement: kernel entry k weighs the cell at offset k - centre from c.
NeighbourField(g, kernel, sh, c) ==
    KSum([k \in DOMAIN kernel |->
            RMul(kernel[k], g[[i \in 1..Len(sh) |-> (c[i] + k[i] - 1) % sh[i]]])],
         Len(sh))

\* The automaton rule for one cell, from the grid at the start of the generation.
RuleSaysAlive(g, pattern, sh, c) ==
    LET n == NeighbourField(g, pattern.kernel, sh, c)
    IN  \/ (RLt(Zero, g[c]) /\ InRange(n, pattern.survive_range))
        \/ (g[c] = Zero /\ InRange(n, pattern.birth_range))

\* The grid a 3D grow call saw at the start of the generation that produced history'[i].
Before(i) == IF i = Len(history) + 1 THEN grid ELSE history'[i - 1]

(***************************************************************************)
(* C1                                                                      *)
(***************************************************************************)
KernelNonNegative(kernel) == \A k \in DOMAIN kernel : ~IsNaN(kernel[k]) /\ RLeq(Zero, kernel[k])
KernelCentreZero(kernel) == kernel[Center(IF prog = "2D" THEN 2 ELSE 3)] = Zero
KernelTotal(kernel) == KSum(kernel, IF prog = "2D" THEN 2 ELSE 3)

C2_HistoryLength ==
    [][prog' = "3D" =>
        /\ lastOp'.op \in SeedOps => Len(history') = 1
        /\ lastOp'.op = "grow" => Len(history') = Len(history) + lastOp'.n]_vars

\* A seed, then grow calls totalling two generations, the last one of two at once.
C2_Witness ==
    /\ prog = "3D"
    /\ lastOp = Op("grow", "crystal", 2)
    /\ Len(history) = 3
    /\ active_cells(history[1]) = 1

(***************************************************************************)
(* C3                                                                      *)
(***************************************************************************)
\* C3: grow with generations=0 returns normally and changes neither the grid nor
\* the history, whatever the grid and the rule.
C3_GrowZeroIsNoOp ==
    [][(prog' = "3D" /\ lastOp'.op = "grow" /\ lastOp'.n = 0) =>
        /\ grid' = grid
        /\ history' = history
        /\ dtype' = dtype
        /\ ret'.kind = "return"]_vars

\* grow(generations=0) was called on a seeded grid that still has live cells.
C3_Witness ==
    /\ prog = "3D"
    /\ lastOp.op = "grow"
    /\ lastOp.n = 0
    /\ Len(history) = 1
    /\ active_cells(grid) > 1

(***************************************************************************)
(* C4                                                                      *)
(***************************************************************************)
\* C4 as stated: for every shipped rule of either engine, mycelium included, grow
\* takes an all-zero grid to an all-zero grid (active-cell count 0 stays 0).
C4_ExtinctionIsFixedPoint ==
    [][(lastOp'.op = "grow" /\ AllZero(grid)) =>
        (AllZero(grid') /\ active_cells(grid') = 0)]_vars

\* C4 amended: extinction is a fixed point for every shipped rule that adds no
\* noise (2D coral and lichen, all 3D rules, mycelium included).  The 2D mycelium
\* rule takes an all-zero grid to its noise array: every cell in [0, 0.1), and
\* the active-cell count returned is the number of cells with non-zero noise.
C4_ExtinctionWithoutNoise ==
    [][(lastOp'.op = "grow" /\ AllZero(grid)) =>
        IF prog = "2D" /\ lastOp'.arg = "mycelium"
        THEN /\ \A c \in DOMAIN grid' : RLeq(Zero, grid'[c]) /\ RLt(grid'[c], <<1, 10>>)
             /\ grid' \in NoiseArrays[shape]
             /\ ret'.val = active_cells(grid')
        ELSE AllZero(grid') /\ active_cells(grid') = 0]_vars

\* A seeded 3D pattern died out and a further generation ran on the all-zero grid.
C4_Witness ==
    /\ prog = "3D"
    /\ lastOp.op = "grow"
    /\ Len(history) = 3
    /\ ~AllZero(history[1])
    /\ AllZero(history[2])
    /\ AllZero(history[3])
    /\ AllZero(grid)

(***************************************************************************)
(* C5                                                                      *)
(***************************************************************************)
\* C5: add_environment, for either field kind and also when repeated, leaves
\* every cell non-negative and no larger than it was.
C5_EnvironmentAttenuates ==
    [][lastOp'.op = "add_environment" =>
        \A c \in DOMAIN grid :
            RLeq(grid'[c], grid[c]) /\ RLeq(Zero, grid'[c])]_vars

\* add_environment ran twice in a row, last with the radial field, and left a
\* cell strictly between 0 and 1.
C5_Witness ==
    /\ prog = "2D"
    /\ lastOp = Op("add_environment", "light", 0)
    /\ envRun = 2
    /\ \E c \in DOMAIN grid : RLt(Zero, grid[c]) /\ RLt(grid[c], <<3, 10>>)

(***************************************************************************)
(* C6                                                                      *)
(***************************************************************************)
\* C6 as stated: building a kernel for an unrecognised shape name raises
\* InvalidShape and returns no kernel.
C6_UnknownShapeRaises ==
    (lastOp.op = "_create_3d_kernel" /\ lastOp.arg \notin KnownShapes3D) =>
        (ret.kind = "raise" /\ ret.exc = "InvalidShape")

\* What the code does instead: it returns an array whose every entry is 0/0.
C6_UnknownShapeReturnsNaN ==
    (lastOp.op = "_create_3d_kernel" /\ lastOp.arg \notin KnownShapes3D) =>
        (ret.kind = "return" /\ \A k \in DOMAIN ret.val : IsNaN(ret.val[k]))

(***************************************************************************)
(* C7                                                                      *)
(***************************************************************************)
\* The cell values the rule prescribes for the generation that starts from g.
Prescribed(g, pattern, sh) ==
    [c \in DOMAIN g |-> IF RuleSaysAlive(g, pattern, sh, c) THEN One ELSE Zero]

\* C7 as stated: every generation of grow, in either engine and for every rule,
\* sets each cell to 1 exactly when the rule holds for it on the grid as it was
\* at the start of that generation, and to 0 otherwise.
C7_SynchronousUpdate ==
    [][lastOp'.op = "grow" =>
        IF prog = "2D"
        THEN grid' = Prescribed(grid, Patterns2D[lastOp'.arg], shape)
        ELSE /\ \A i \in (Len(history) + 1)..Len(history') :
                    history'[i] = Prescribed(Before(i), Patterns3D[lastOp'.arg], shape)
             /\ lastOp'.n >= 1 => grid' = history'[Len(history')]]_vars

\* C7 amended: as stated, except that under the 2D mycelium rule a cell for which
\* the rule does not hold is left at a noise value in [0, 0.1) instead of 0 (a
\* cell for which it holds is still exactly 1).
C7_SynchronousUpdateUpToNoise ==
    [][lastOp'.op = "grow" =>
        IF prog = "2D" /\ lastOp'.arg = "mycelium"
        THEN \A c \in DOMAIN grid :
                IF RuleSaysAlive(grid, Patterns2D["mycelium"], shape, c)
                THEN grid'[c] = One
                ELSE RLeq(Zero, grid'[c]) /\ RLt(grid'[c], <<1, 10>>)
        ELSE IF prog = "2D"
        THEN grid' = Prescribed(grid, Patterns2D[lastOp'.arg], shape)
        ELSE /\ \A i \in (Len(history) + 1)..Len(history') :
                    history'[i] = Prescribed(Before(i), Patterns3D[lastOp'.arg], shape)
             /\ lastOp'.n >= 1 => grid' = history'[Len(history')]]_vars

\* A 2D coral generation ran and left both live and dead cells.
C7_Witness ==
    /\ prog = "2D"
    /\ lastOp.op = "grow"
    /\ lastOp.arg = "coral"
    /\ ret.val > 0
    /\ ret.val < Cardinality(DOMAIN grid)
    /\ Binary(grid)

(***************************************************************************)
(* C8                                                                      *)
(***************************************************************************)
\* The neighbour field grow computes for the current grid under a rule.
neighbors(rule) == convolve(grid, patterns[rule].kernel, shape, dtype)

Opposite(c, i) == [c EXCEPT ![i] = IF c[i] = 0 THEN shape[i] - 1 ELSE 0]

SingleLiveCell(c) == \A d \in DOMAIN grid : RLt(Zero, grid[d]) <=> d = c

\* C8 as stated: with a single live cell on one edge of an axis, the cell on the
\* opposite edge of that axis has it counted in its neighbour field (both ways
\* round), and every neighbour lookup stays inside the grid.
C8_PeriodicNeighbours ==
    /\ \A rule \in Rules : \A c \in DOMAIN grid : \A i \in 1..Len(shape) :
        (SingleLiveCell(c) /\ shape[i] >= 2 /\ c[i] \in {0, shape[i] - 1}) =>
            RLt(Zero, neighbors(rule)[Opposite(c, i)])
    /\ \A c \in DOMAIN grid : \A k \in Cells(IF prog = "2D" THEN KernelShape2D ELSE KernelShape3D) :
        Source(c, k, shape) \in DOMAIN grid

\* What does hold: on float grids (the 2D engine, and the 3D engine unless seeded
\* by seed_random, whose grid is an integer array) the opposite edge counts the cell.
C8_PeriodicOnFloatGrids ==
    dtype = "float" =>
        \A rule \in Rules : \A c \in DOMAIN grid : \A i \in 1..Len(shape) :
            (SingleLiveCell(c) /\ shape[i] >= 2 /\ c[i] \in {0, shape[i] - 1}) =>
                RLt(Zero, neighbors(rule)[Opposite(c, i)])

(***************************************************************************)
(* C9                                                                      *)
(***************************************************************************)
\* C9: a stored snapshot never changes afterwards.  A seed stores the seeded grid
\* as the only snapshot; grow keeps every earlier snapshot as it was and ends
\* with the last snapshot equal to the grid; nothing else touches the history.
C9_SnapshotsAreIndependent ==
    [][prog' = "3D" =>
        /\ lastOp'.op \in SeedOps => history' = <<grid'>>
        /\ lastOp'.op = "grow" =>
            /\ Len(history') >= Len(history)
            /\ \A i \in 1..Len(history) : history'[i] = history[i]
            /\ lastOp'.n >= 1 => history'[Len(history')] = grid'
        /\ lastOp'.op \notin SeedOps \cup {"grow"} => history' = history]_vars

\* Two grow calls after a seed: the seeded snapshot differs from the live grid.
C9_Witness ==
    /\ prog = "3D"
    /\ lastOp.op = "grow"
    /\ lastOp.n = 1
    /\ Len(history) = 3
    /\ history[1] # grid
    /\ active_cells(history[1]) > 1

(***************************************************************************)
(* C10                                                                     *)
(***************************************************************************)
\* C10: in the 3D engine every neighbour field lies in [0, 1] while every rule
\* needs at least 3, so after any generation the grid is all-zero: every
\* snapshot after the first is all-zero, and so is the grid once grow has run.
C10_ThreeDAlwaysDiesOut ==
    prog = "3D" =>
        /\ Binary(grid)
        /\ \A rule \in Rules3D : \A c \in DOMAIN grid :
            /\ RLeq(Zero, neighbors(rule)[c]) /\ RLeq(neighbors(rule)[c], One)
            /\ Patterns3D[rule].survive_range[1] >= 3
            /\ Patterns3D[rule].birth_range[1] >= 3
        /\ \A i \in 2..Len(history) : AllZero(history[i])
        /\ (lastOp.op = "grow" /\ lastOp.n >= 1) => AllZero(grid)

\* A fully live seeded 3D grid was grown for one generation and is now empty.
C10_Witness ==
    /\ prog = "3D"
    /\ lastOp.op = "grow"
    /\ lastOp.n = 1
    /\ Len(history) = 2
    /\ active_cells(history[1]) >= 4
    /\ AllZero(grid)

====
